---- MODULE Spec2Model ----
(***************************************************************************)
(* The event-stream session of the Mattermost-to-Signal bridge: the        *)
(* websocket handler WsClient (src/websocket_client.rs), the dispatcher    *)
(* react_to_message and the session thread (src/main.rs), and the parts of *)
(* the event decoder (src/websocket.rs, src/serialize.rs, src/api/mod.rs)  *)
(* that decide what the dispatcher sees.                                   *)
(***************************************************************************)
EXTENDS Integers, Sequences, FiniteSets, TLC

(***************************************************************************)
(* Bounds of the model.                                                    *)
(***************************************************************************)
\* timers requested on one connection when the session is followed for its
\* dispatcher
MaxTimers == 2
\* delivery threads that may be pending at once
MaxDeliveries == 1
\* timers requested on one connection when the session is followed for its
\* timers
MaxRequests == 4
\* delivery threads that may be pending at once when the session is followed
\* for its deliveries
MaxPending == 2
\* characters of a string given to a decoder of the serialize module
MaxLen == 3
\* members of a set given to an encoder of the serialize module
MaxMembers == 2
\* milliseconds before and after the epoch of a timestamp given to a decoder
MaxMillis == 1500
\* keepalive intervals the session is followed for after it opened, when
\* it is followed with its clock
MaxTime == 7
\* text frames read from the socket when the session is followed for the
\* order of its frames
MaxArrivals == 3

(***************************************************************************)
(* Option::None, and the configuration of the one server of the model.     *)
(***************************************************************************)
None == <<>>

Some(x) == <<x>>

IsSome(o) == o # <<>>

Unwrap(o) == o[1]

servername == "srv"

mobile_number == "+49"

token == "tok"

\* account ids seen on the wire; the empty id is what broadcasts carry when
\* they are not addressed to one user
UserIds == {"", "U1", "U2"}

(***************************************************************************)
(* websocket_client.rs: timer tokens, intervals and the probe payload.     *)
(***************************************************************************)
PING == 1

PING_TIMEOUT == 10000

EXPIRE == 2

EXPIRE_TIMEOUT == 60000

PING_PONG == "mattermost-client"

(***************************************************************************)
(* The decoder.  A text frame has one of three shapes: "garbage" (not JSON, *)
(* or JSON of no known shape), "reply" [status, seq_reply], or "push"      *)
(* [event, data, broadcast, seq].                                          *)
(***************************************************************************)
\* the tags of Events, snake_case
EventTags ==
    {"hello", "status_change", "ephemeral_message", "typing", "posted",
     "reaction_added", "post_edited", "channel_created",
     "preferences_changed", "user_updated", "post_deleted", "channel_viewed",
     "preferences_deleted", "channel_updated", "reaction_removed", "new_user",
     "emoji_added", "channel_deleted", "direct_added", "update_team",
     "user_added", "user_removed", "leave_team", "config_changed",
     "group_added", "delete_team", "channel_member_updated"}

\* Status, by wire name
StatusNames == {"online", "away", "dnd", "offline"}

\* ChannelType, by wire name
ChannelType ==
    [O |-> "Open", P |-> "Private", D |-> "DirectMessage", G |-> "Group",
     I |-> "Internal"]

\* Rust's integer division and remainder truncate toward zero
TruncDiv(a, b) == IF a >= 0 THEN a \div b ELSE -((-a) \div b)

TruncRem(a, b) == a - b * TruncDiv(a, b)

\* `x as u32` for an x of more than 32 bits, as its two 16-bit halves
AsU32(x) == [hi |-> (x \div 65536) % 65536, lo |-> x % 65536]

\* ts_seconds::deserialize: the wire value is split into value / 1000 seconds
\* and (value % 1000 * 1_000_000) as u32 nanoseconds; timestamp_opt accepts
\* nanoseconds below 2_000_000_000 = 30517 * 65536 + 37888, which excludes
\* what a negative remainder becomes after the cast
TsDeserialize(value) ==
    LET secs == TruncDiv(value, 1000)
        nanos == AsU32(TruncRem(value, 1000) * 1000000)
    IN  IF nanos.hi < 30517 \/ (nanos.hi = 30517 /\ nanos.lo < 37888)
        THEN [ok |-> TRUE, secs |-> secs,
              millis |-> (nanos.hi * 65536 + nanos.lo) \div 1000000]
        ELSE [ok |-> FALSE]

\* ts_seconds::serialize and option_ts_milliseconds::serialize of an
\* instant: timestamp() * 1000 + timestamp_subsec_millis()
TsSerialize(dt) == dt.secs * 1000 + dt.millis

\* a JSON value: null, a string or an integer
JsonNull == [json |-> "null", text |-> <<>>, int |-> 0]
JsonString(text) == [json |-> "string", text |-> text, int |-> 0]
JsonInt(i) == [json |-> "int", text |-> <<>>, int |-> i]

\* a field with option_ts_milliseconds and default, given as None when the
\* key is absent and as Some of its JSON value otherwise: the default is
\* taken for an absent key only, and the visitor has visit_i64 and
\* visit_u64 and nothing for null
OptionTsDeserialize(field) ==
    IF field = <<>>
    THEN [ok |-> TRUE, v |-> <<>>]
    ELSE IF field[1].json = "int" /\ TsDeserialize(field[1].int).ok
    THEN [ok |-> TRUE,
          v |-> <<[secs |-> TsDeserialize(field[1].int).secs,
                   millis |-> TsDeserialize(field[1].int).millis]>>]
    ELSE [ok |-> FALSE, v |-> <<>>]

\* option_ts_milliseconds::serialize: the milliseconds of Some, and
\* serialize_unit, which is null, for None
OptionTsSerialize(at) ==
    IF at = <<>> THEN JsonNull ELSE JsonInt(TsSerialize(at[1]))

\* serde_json::from_str::<Message>: the decoded push, or a failure.  The
\* nested payloads of posted are read by json::nested, which takes a JSON
\* string that holds JSON text and has no case for an object
Decode(frame) ==
    IF frame.shape = "garbage" THEN [ok |-> FALSE]
    ELSE IF frame.shape = "reply"
    THEN [ok |-> frame.status = "OK", shape |-> "reply"]
    ELSE IF frame.event \notin EventTags THEN [ok |-> FALSE]
    ELSE IF frame.event = "status_change"
    THEN IF frame.data.status \in StatusNames
         THEN [ok |-> TRUE, shape |-> "push", event |-> frame.event,
               data |-> frame.data, broadcast |-> frame.broadcast]
         ELSE [ok |-> FALSE]
    ELSE IF frame.event = "posted"
    THEN LET ts == TsDeserialize(frame.data.create_at)
         IN  IF /\ frame.data.channel_type \in DOMAIN ChannelType
                /\ ts.ok
                /\ frame.data.nested = "string"
             THEN [ok |-> TRUE, shape |-> "push", event |-> frame.event,
                   data |-> [channel_type |-> ChannelType[frame.data.channel_type],
                             channel_display_name |-> frame.data.channel_display_name,
                             sender_name |-> frame.data.sender_name,
                             message |-> frame.data.message,
                             create_at |-> ts.secs,
                             mentions |-> frame.data.mentions],
                   broadcast |-> frame.broadcast]
             ELSE [ok |-> FALSE]
    ELSE IF frame.event = "channel_deleted"
    THEN LET at == OptionTsDeserialize(frame.data.delete_at)
         IN  IF at.ok
             THEN [ok |-> TRUE, shape |-> "push", event |-> frame.event,
                   data |-> [channel_id |-> frame.data.channel_id,
                             delete_at |-> at.v],
                   broadcast |-> frame.broadcast]
             ELSE [ok |-> FALSE]
    ELSE [ok |-> TRUE, shape |-> "push", event |-> frame.event,
          data |-> frame.data, broadcast |-> frame.broadcast]

(***************************************************************************)
(* The dispatcher, react_to_message.                                       *)
(***************************************************************************)
\* Europe/Berlin's offset from UTC in seconds; the inputs of the model lie in
\* January 1970, when it was +01:00
TzBerlin == 3600

\* post.create_at.with_timezone(&TzBerlin).format("%H:%M:%S")
LocalTime(secs) ==
    LET t == (secs + TzBerlin) % 86400
    IN  <<t \div 3600, (t % 3600) \div 60, t % 60>>

\* FormatText with the direct-message arm taken for every kind it handles
FormatText_NoChannel(channel_type, server, sender, channel, message, time) ==
    CASE channel_type \in {"DirectMessage", "Open", "Private"} ->
            Some(<<server, " ", sender, ":\n", message, "\n@", time>>)
      [] OTHER -> None

\* the match on channel_type that builds the text; a text is the sequence of
\* the pieces that format! joins.  There are arms for DirectMessage, Open and
\* Private only: for the two other kinds no text is built
FormatText(channel_type, server, sender, channel, message, time) ==
    CASE channel_type = "DirectMessage" ->
            Some(<<server, " ", sender, ":\n", message, "\n@", time>>)
      [] channel_type \in {"Open", "Private"} ->
            Some(<<server, " ", sender, " in ", channel, ":\n", message,
                   "\n@", time>>)
      [] OTHER -> None

\* mentions.contains(own)
Contains(vec, x) == \E i \in 1..Len(vec) : vec[i] = x

\* OmitMe looking up the id of the broadcast instead of the own id
OmitMe_BroadcastUser(own, broadcast) ==
    /\ IsSome(own)
    /\ IsSome(broadcast.omit_users)
    /\ broadcast.user_id \in DOMAIN Unwrap(broadcast.omit_users)
    /\ Unwrap(broadcast.omit_users)[broadcast.user_id]

\* the early return: the broadcast covers us
OmitMe(own, broadcast) ==
    /\ IsSome(own)
    /\ IsSome(broadcast.omit_users)
    /\ Unwrap(own) \in DOMAIN Unwrap(broadcast.omit_users)
    /\ Unwrap(broadcast.omit_users)[Unwrap(own)]

\* HelloArm taking an empty broadcast user id for no id
HelloArm_EmptyIsNone(own, broadcast) ==
    IF broadcast.user_id = "" THEN None ELSE Some(broadcast.user_id)

\* the Hello arm
HelloArm(own, broadcast) == Some(broadcast.user_id)

\* PostedArm with the mention test replaced by `if true`, as in the
\* commented-out lines of the source
PostedArm_AlwaysNotify(own, data) ==
    LET text == FormatText(data.channel_type, servername,
                           data.sender_name, data.channel_display_name,
                           data.message, LocalTime(data.create_at))
    IN  [spawned |-> IF IsSome(text)
                     THEN <<[number |-> mobile_number, text |-> Unwrap(text)]>>
                     ELSE <<>>,
         panic |-> FALSE]

\* the Posted arm: the requests handed to delivery threads, or the panic of
\* own_id.unwrap()
PostedArm(own, data) ==
    IF ~IsSome(data.mentions) THEN [spawned |-> <<>>, panic |-> FALSE]
    ELSE IF ~IsSome(own) THEN [spawned |-> <<>>, panic |-> TRUE]
    ELSE IF ~Contains(Unwrap(data.mentions), Unwrap(own))
    THEN [spawned |-> <<>>, panic |-> FALSE]
    ELSE LET text == FormatText(data.channel_type, servername,
                                data.sender_name, data.channel_display_name,
                                data.message, LocalTime(data.create_at))
         IN  [spawned |-> IF IsSome(text)
                          THEN <<[number |-> mobile_number, text |-> Unwrap(text)]>>
                          ELSE <<>>,
              panic |-> FALSE]

\* OtherArm with the commented-out PostEdited arm of the source switched on
OtherArm_PostEdited(own, msg) ==
    [own_id |-> own,
     spawned |-> IF msg.event = "post_edited" /\ own = Some(msg.data.user_id)
                 THEN <<[number |-> mobile_number, text |-> <<"">>]>>
                 ELSE <<>>,
     panic |-> FALSE]

\* every other arm: `_ => {}`
OtherArm(own, msg) == [own_id |-> own, spawned |-> <<>>, panic |-> FALSE]

\* react_to_message(client, message): the new own_id, the delivery requests
\* spawned and whether the call panicked
\* as react_to_message, with an unwrap of the result of the decoder
react_to_message_UnwrapsDecode(own, frame) ==
    LET msg == Decode(frame)
        same == [own_id |-> own, spawned |-> <<>>, panic |-> FALSE]
    IN  IF ~msg.ok THEN [same EXCEPT !.panic = TRUE]
        ELSE IF msg.shape = "reply" THEN same
        ELSE IF OmitMe(own, msg.broadcast) THEN same
        ELSE IF msg.event = "hello"
        THEN [same EXCEPT !.own_id = HelloArm(own, msg.broadcast)]
        ELSE IF msg.event = "posted"
        THEN LET r == PostedArm(own, msg.data)
             IN  [same EXCEPT !.spawned = r.spawned, !.panic = r.panic]
        ELSE OtherArm(own, msg)

react_to_message(own, frame) ==
    LET msg == Decode(frame)
        same == [own_id |-> own, spawned |-> <<>>, panic |-> FALSE]
    IN  IF ~msg.ok THEN same
        ELSE IF msg.shape = "reply" THEN same
        ELSE IF OmitMe(own, msg.broadcast) THEN same
        ELSE IF msg.event = "hello"
        THEN [same EXCEPT !.own_id = HelloArm(own, msg.broadcast)]
        ELSE IF msg.event = "posted"
        THEN LET r == PostedArm(own, msg.data)
             IN  [same EXCEPT !.spawned = r.spawned, !.panic = r.panic]
        ELSE OtherArm(own, msg)

(***************************************************************************)
(* The inbound frames of the model.                                        *)
(***************************************************************************)
OmitMaps ==
    {None, Some([u \in {"U1"} |-> TRUE]), Some([u \in {"U1"} |-> FALSE])}

\* the broadcast of an envelope, with the given suppression map and user id
Broadcast(omit, user) ==
    [omit_users |-> omit, user_id |-> user, channel_id |-> "c1",
     team_id |-> ""]

\* wire timestamps in milliseconds: 00:00:00.000 and 22:59:59.999 UTC of
\* 1 January 1970
CreateAts == {0, 82799999}

MentionLists == {None, Some(<<"U2">>), Some(<<"U2", "U1">>)}

PostedData(ct, at, m) ==
    [channel_type |-> ct, channel_display_name |-> "Town Square",
     sender_name |-> "alice", message |-> "hi", create_at |-> at,
     mentions |-> m, nested |-> "string"]

Push(tag, data, omit, user) ==
    [shape |-> "push", event |-> tag, data |-> data,
     broadcast |-> Broadcast(omit, user)]

HelloFrames ==
    {Push("hello", [server_version |-> "5"], None, u) : u \in {"U1", ""}}
    \cup
    {Push("hello", [server_version |-> "5"], Some([u \in {"U1"} |-> TRUE]), "")}

StatusFrames ==
    {Push("status_change", [status |-> st, user_id |-> u], None, "") :
        st \in StatusNames, u \in {"U1", "U2"}}
    \cup
    {Push("status_change", [status |-> "dnd", user_id |-> "U1"],
          Some([u \in {"U1"} |-> TRUE]), "")}

PostedFrames ==
    {Push("posted", PostedData(ct, 0, m), None, "") :
        ct \in DOMAIN ChannelType, m \in MentionLists}
    \cup
    {Push("posted", PostedData(ct, 0, Some(<<"U2", "U1">>)), o, "") :
        ct \in {"O", "D"}, o \in OmitMaps \ {None}}
    \cup
    {Push("posted", PostedData(ct, at, Some(<<"U2", "U1">>)), None, "") :
        ct \in {"O", "D"}, at \in CreateAts}

\* kinds the dispatcher has no arm for
OtherTags == {"post_edited", "post_deleted", "reaction_added", "user_updated"}

OtherFrames ==
    {Push(t, [user_id |-> "U1"], None, "") : t \in OtherTags}
    \cup
    {Push("post_edited", [user_id |-> "U1"], Some([u \in {"U1"} |-> TRUE]), "")}

\* frames the decoder rejects, and a reply
OddFrames ==
    {[shape |-> "garbage"],
     [shape |-> "reply", status |-> "OK", seq_reply |-> 1],
     Push("custom_plugin_event", [x |-> 0], None, ""),
     Push("posted", PostedData("X", 0, Some(<<"U2", "U1">>)), None, ""),
     Push("posted", PostedData("O", -1, Some(<<"U2", "U1">>)), None, ""),
     Push("posted",
          [PostedData("O", 0, Some(<<"U2", "U1">>)) EXCEPT !.nested = "object"],
          None, "")}

TextFrames ==
    HelloFrames \cup StatusFrames \cup PostedFrames \cup OtherFrames
        \cup OddFrames

(***************************************************************************)
(* The session: one thread running ws::connect with a WsClient handler.    *)
(***************************************************************************)
VARIABLES
    conn,       \* "connecting", "open", "closed" or "panicked"
    closeCode,  \* why the connection ended, None while it lives
    own_id,     \* WsClient.own_id
    timeout,    \* WsClient.timeout, the handle of an EXPIRE timer
    queue,      \* what the handler sent through ws::Sender, not yet acted on
    timers,     \* the timers scheduled in the event loop: [token, id]
    requested,  \* timers requested on this connection so far
    sent,       \* frames handed to the connection, in the order of the wire
    pending,    \* delivery threads spawned and not yet finished
    last,       \* the last call of react_to_message: frame, own_id before,
                \* requests spawned, panic
    announced,  \* the presence the server last announced for the own account
    thread,     \* the session thread: "none", "running", "returned" or
                \* "panicked"
    attempts,   \* calls of connect the session thread has made
    pongs,      \* pongs with our payload received on this connection
    delivery,   \* Some("failed") once a delivery thread has ended with Err
    watchdog,   \* the watchdog thread: "none", "checking", "alerting",
                \* "sleeping" or "dead"
    process,    \* the main thread: "startup", "joining", "waiting", "exited"
    arrived,    \* the text frames read from the socket so far, in order
    inbox,      \* those of them the handler has not been called for yet
    peer,       \* the session of the server configured next: conn, own_id,
                \* timers
    codec,      \* a value taken through functions of the serialize module:
                \* kind, the functions applied, the result of each
    poll,       \* the poll the watchdog is in or has ended: what get_users
                \* answered, and the alerts raised in it
    clock       \* the time since the connection opened, in keepalive
                \* intervals: now, the time each timer is due, and whether
                \* every probe was answered before time went on

vars ==
    <<conn, closeCode, own_id, timeout, queue, timers, requested, sent,
      pending, last, announced, thread, attempts, pongs, delivery, watchdog,
      process, arrived, inbox, peer, codec, clock, poll>>

\* what belongs to other threads than the session thread and main
others == <<peer, codec, clock>>

\* what no handler of the session writes
beyond == <<watchdog, poll, process, arrived, others>>

\* no further server is configured
NoPeer == [conn |-> "none", own_id |-> None, timers |-> {}]

\* the watchdog has polled nothing yet
NoPoll == [check |-> "none", alerts |-> 0]

\* the connection has not opened yet, and no timer is set
NoTime == [now |-> 0, due |-> <<>>, prompt |-> TRUE]

\* no value is followed through the serialize module
NoCodec == [kind |-> "none", trail |-> <<>>, stages |-> <<>>]

\* as Init, with a handler that has kept the own id of an earlier connection
Init_StaleOwnId ==
    /\ conn = "connecting"
    /\ closeCode = None
    /\ own_id = Some("U1")
    /\ timeout = None
    /\ queue = <<[sig |-> "send", seq |-> 1,
                  action |-> "authentication_challenge", token |-> token]>>
    /\ timers = {}
    /\ requested = 0
    /\ sent = <<>>
    /\ pending = 0
    /\ last = None
    /\ announced = "online"
    /\ thread = "running"
    /\ attempts = 1
    /\ pongs = 0
    /\ delivery = None
    /\ watchdog = "checking"
    /\ process = "joining"
    /\ arrived = <<>>
    /\ inbox = <<>>
    /\ peer = NoPeer
    /\ codec = NoCodec
    /\ clock = NoTime
    /\ poll = NoPoll

\* the factory closure of connect: the authentication challenge is queued
\* and the handler is built
Init ==
    /\ conn = "connecting"
    /\ closeCode = None
    /\ own_id = None
    /\ timeout = None
    /\ queue = <<[sig |-> "send", seq |-> 1,
                  action |-> "authentication_challenge", token |-> token]>>
    /\ timers = {}
    /\ requested = 0
    /\ sent = <<>>
    /\ pending = 0
    /\ last = None
    /\ announced = "online"
    /\ thread = "running"
    /\ attempts = 1
    /\ pongs = 0
    /\ delivery = None
    /\ watchdog = "checking"
    /\ process = "joining"
    /\ arrived = <<>>
    /\ inbox = <<>>
    /\ peer = NoPeer
    /\ codec = NoCodec
    /\ clock = NoTime
    /\ poll = NoPoll

\* as Terminate, with an event loop that keeps the timers of the connection
Terminate_KeepsTimers(code) ==
    /\ conn' = "closed"
    /\ closeCode' = Some(code)
    /\ queue' = <<>>
    /\ timers' = timers

\* the connection is gone: the event loop of connect ends with it, and
\* connect returns
Terminate(code) ==
    /\ conn' = "closed"
    /\ closeCode' = Some(code)
    /\ queue' = <<>>
    /\ timers' = {}

\* as on_open, without the EXPIRE timer
on_open_NoExpire ==
    /\ conn = "connecting"
    /\ queue = <<>>
    /\ conn' = "open"
    /\ queue' = queue \o
         <<[sig |-> "timeout", ms |-> PING_TIMEOUT, token |-> PING]>>
    /\ requested' = requested + 1
    /\ UNCHANGED <<closeCode, own_id, timeout, timers, sent, pending, last,
                   announced, thread, attempts, pongs, delivery, inbox, beyond>>

\* on_open.  The handshake ends inside the event loop, which has by then
\* taken in what the factory queued before the loop was started
on_open ==
    /\ conn = "connecting"
    /\ queue = <<>>
    /\ conn' = "open"
    /\ queue' = queue \o <<[sig |-> "timeout", ms |-> PING_TIMEOUT, token |-> PING],
                            [sig |-> "timeout", ms |-> EXPIRE_TIMEOUT, token |-> EXPIRE]>>
    /\ requested' = requested + 2
    /\ UNCHANGED <<closeCode, own_id, timeout, timers, sent, pending, last,
                   announced, thread, attempts, pongs, delivery, inbox, beyond>>

\* connect returns an error: the thread logs it and returns
ConnectFailed ==
    /\ conn = "connecting"
    /\ Terminate("error")
    /\ UNCHANGED <<own_id, timeout, requested, sent, pending, last, announced,
                   thread, attempts, pongs, delivery, inbox, beyond>>

\* as on_new_timeout, without the cancel of the timer that is replaced
on_new_timeout_NoCancel(event, id) ==
    IF event = EXPIRE
    THEN [timeout |-> Some(id), cancel |-> <<>>]
    ELSE [timeout |-> timeout, cancel |-> <<>>]

\* on_new_timeout(event, timeout): the new handle, and the cancel it sends
on_new_timeout(event, id) ==
    IF event = EXPIRE
    THEN [timeout |-> Some(id),
          cancel |-> IF IsSome(timeout)
                     THEN <<[sig |-> "cancel", id |-> Unwrap(timeout)]>>
                     ELSE <<>>]
    ELSE [timeout |-> timeout, cancel |-> <<>>]

\* as Signal, with a message that is dropped while the handshake is not over
Signal_DropsBeforeOpen ==
    /\ conn \in {"connecting", "open"}
    /\ queue # <<>>
    /\ LET s == Head(queue)
       IN  CASE s.sig = "send" ->
                  /\ sent' = IF conn = "open"
                             THEN Append(sent, [seq |-> s.seq,
                                                action |-> s.action,
                                                token |-> s.token])
                             ELSE sent
                  /\ queue' = Tail(queue)
                  /\ UNCHANGED <<conn, closeCode, timeout, timers>>
             [] s.sig = "ping" ->
                  /\ sent' = Append(sent, [ping |-> s.payload])
                  /\ queue' = Tail(queue)
                  /\ UNCHANGED <<conn, closeCode, timeout, timers>>
             [] s.sig = "timeout" ->
                  LET waiting == Cardinality({i \in 1..Len(queue) :
                                                 queue[i].sig = "timeout"})
                      fresh == requested - waiting + 1
                      r == on_new_timeout(s.token, fresh)
                  IN  /\ timers' = timers \cup {[token |-> s.token, id |-> fresh]}
                      /\ timeout' = r.timeout
                      /\ queue' = Tail(queue) \o r.cancel
                      /\ UNCHANGED <<conn, closeCode, sent>>
             [] s.sig = "cancel" ->
                  /\ timers' = {x \in timers : x.id # s.id}
                  /\ queue' = Tail(queue)
                  /\ UNCHANGED <<conn, closeCode, timeout, sent>>
             [] s.sig = "close" ->
                  /\ Terminate(s.code)
                  /\ sent' = Append(sent, [close |-> s.code])
                  /\ UNCHANGED timeout
    /\ UNCHANGED <<own_id, requested, pending, last, announced, thread,
                   attempts, pongs, delivery, inbox, beyond>>

\* the event loop acts on the next signal of the handler
Signal ==
    /\ conn \in {"connecting", "open"}
    /\ queue # <<>>
    /\ LET s == Head(queue)
       IN  CASE s.sig = "send" ->
                  /\ sent' = Append(sent, [seq |-> s.seq, action |-> s.action,
                                           token |-> s.token])
                  /\ queue' = Tail(queue)
                  /\ UNCHANGED <<conn, closeCode, timeout, timers>>
             [] s.sig = "ping" ->
                  /\ sent' = Append(sent, [ping |-> s.payload])
                  /\ queue' = Tail(queue)
                  /\ UNCHANGED <<conn, closeCode, timeout, timers>>
             [] s.sig = "timeout" ->
                  LET waiting == Cardinality({i \in 1..Len(queue) :
                                                 queue[i].sig = "timeout"})
                      fresh == requested - waiting + 1
                      r == on_new_timeout(s.token, fresh)
                  IN  /\ timers' = timers \cup {[token |-> s.token, id |-> fresh]}
                      /\ timeout' = r.timeout
                      /\ queue' = Tail(queue) \o r.cancel
                      /\ UNCHANGED <<conn, closeCode, sent>>
             [] s.sig = "cancel" ->
                  /\ timers' = {x \in timers : x.id # s.id}
                  /\ queue' = Tail(queue)
                  /\ UNCHANGED <<conn, closeCode, timeout, sent>>
             [] s.sig = "close" ->
                  /\ Terminate(s.code)
                  /\ sent' = Append(sent, [close |-> s.code])
                  /\ UNCHANGED timeout
    /\ UNCHANGED <<own_id, requested, pending, last, announced, thread,
                   attempts, pongs, delivery, inbox, beyond>>

\* as OnTimeout, with a keepalive tick that sends its probe and does not ask
\* for the next PING timer
OnTimeout_NoRearm(limit) ==
    /\ conn = "open"
    /\ \E t \in timers :
         /\ timers' = timers \ {t}
         /\ CASE t.token = PING ->
                   /\ requested < limit
                   /\ queue' = Append(queue,
                                      [sig |-> "ping", payload |-> PING_PONG])
                   /\ requested' = requested + 1
              [] t.token = EXPIRE ->
                   /\ queue' = Append(queue, [sig |-> "close", code |-> "Away"])
                   /\ UNCHANGED requested
    /\ UNCHANGED <<conn, closeCode, own_id, timeout, sent, pending, last,
                   announced, thread, attempts, pongs, delivery, inbox, beyond>>

\* on_timeout(event) for a timer of the event loop that is due; the model
\* follows the session up to limit timer requests
OnTimeout(limit) ==
    /\ conn = "open"
    /\ \E t \in timers :
         /\ timers' = timers \ {t}
         /\ CASE t.token = PING ->
                   /\ requested < limit
                   /\ queue' = queue \o
                        <<[sig |-> "ping", payload |-> PING_PONG],
                          [sig |-> "timeout", ms |-> PING_TIMEOUT, token |-> PING]>>
                   /\ requested' = requested + 1
              [] t.token = EXPIRE ->
                   /\ queue' = Append(queue, [sig |-> "close", code |-> "Away"])
                   /\ UNCHANGED requested
    /\ UNCHANGED <<conn, closeCode, own_id, timeout, sent, pending, last,
                   announced, thread, attempts, pongs, delivery, inbox, beyond>>

on_timeout == OnTimeout(MaxTimers)

\* the presence announced for the own account by a decoded status_change
Announced(own, frame, before) ==
    LET msg == Decode(frame)
    IN  IF msg.ok /\ msg.shape = "push" /\ msg.event = "status_change"
           /\ own = Some(msg.data.user_id)
        THEN msg.data.status
        ELSE before

\* as OnMessage, with a delivery made by the handler itself, which lets no
\* frame be handled while one is pending
OnMessage_WaitsForDelivery(frames, limit) ==
    /\ conn = "open"
    /\ pending = 0
    /\ \E frame \in frames :
         LET r == react_to_message(own_id, frame)
         IN  /\ pending + Len(r.spawned) <= limit
             /\ last' = Some([frame |-> frame, own_id |-> own_id,
                              spawned |-> r.spawned, panic |-> r.panic])
             /\ announced' = Announced(own_id, frame, announced)
             /\ own_id' = r.own_id
             /\ pending' = pending + Len(r.spawned)
             /\ IF r.panic
                THEN /\ conn' = "panicked"
                     /\ closeCode' = Some("panic")
                     /\ queue' = <<>>
                     /\ timers' = {}
                     /\ thread' = "panicked"
                ELSE UNCHANGED <<conn, closeCode, queue, timers, thread>>
    /\ UNCHANGED <<timeout, requested, sent, attempts, pongs, delivery, beyond>>

\* on_frame, then on_message, for a text frame without reserved bits, one
\* of frames
OnMessage(frames, limit) ==
    /\ conn = "open"
    /\ \E frame \in frames :
         LET r == react_to_message(own_id, frame)
         IN  /\ pending + Len(r.spawned) <= limit
             /\ last' = Some([frame |-> frame, own_id |-> own_id,
                              spawned |-> r.spawned, panic |-> r.panic])
             /\ announced' = Announced(own_id, frame, announced)
             /\ own_id' = r.own_id
             /\ pending' = pending + Len(r.spawned)
             /\ IF r.panic
                THEN /\ conn' = "panicked"
                     /\ closeCode' = Some("panic")
                     /\ queue' = <<>>
                     /\ timers' = {}
                     /\ thread' = "panicked"
                ELSE UNCHANGED <<conn, closeCode, queue, timers, thread>>
    /\ UNCHANGED <<timeout, requested, sent, attempts, pongs, delivery, beyond>>

on_message == OnMessage(TextFrames, MaxDeliveries) /\ UNCHANGED inbox

\* as OnFramePong, with a new EXPIRE timer asked for by every pong,
\* whatever its payload
OnFramePong_AnyPayload(limit) ==
    /\ conn = "open"
    /\ \E payload \in {PING_PONG, "someone-else"} :
         /\ requested < limit
         /\ queue' = Append(queue, [sig |-> "timeout",
                                    ms |-> EXPIRE_TIMEOUT, token |-> EXPIRE])
         /\ requested' = requested + 1
         /\ pongs' = IF payload = PING_PONG THEN pongs + 1 ELSE pongs
    /\ UNCHANGED <<conn, closeCode, own_id, timeout, timers, sent, pending,
                   last, announced, thread, attempts, delivery, inbox, beyond>>

\* on_frame for a pong without reserved bits: a pong that carries our
\* payload asks for a new EXPIRE timer
OnFramePong(limit) ==
    /\ conn = "open"
    /\ \E payload \in {PING_PONG, "someone-else"} :
         IF payload = PING_PONG
         THEN /\ requested < limit
              /\ queue' = Append(queue, [sig |-> "timeout",
                                         ms |-> EXPIRE_TIMEOUT, token |-> EXPIRE])
              /\ requested' = requested + 1
              /\ pongs' = pongs + 1
         ELSE UNCHANGED <<queue, requested, pongs>>
    /\ UNCHANGED <<conn, closeCode, own_id, timeout, timers, sent, pending,
                   last, announced, thread, attempts, delivery, inbox, beyond>>

on_frame_pong == OnFramePong(MaxTimers)

\* as on_frame_rsv, with the test for a pong done before the test of the
\* reserved bits
on_frame_rsv_PongFirst ==
    /\ conn = "open"
    /\ Terminate("Protocol")
    /\ sent' = Append(sent, [close |-> "Protocol"])
    /\ requested' = requested + 1
    /\ pongs' = pongs + 1
    /\ UNCHANGED <<own_id, timeout, pending, last, announced, thread, attempts,
                   delivery, inbox, beyond>>

\* on_frame for a frame with a reserved bit set: a protocol error, which
\* ends the connection
on_frame_rsv ==
    /\ conn = "open"
    /\ Terminate("Protocol")
    /\ sent' = Append(sent, [close |-> "Protocol"])
    /\ UNCHANGED <<own_id, timeout, requested, pending, last, announced,
                   thread, attempts, pongs, delivery, inbox, beyond>>

\* the server closes the connection, or the transport fails
RemoteClose ==
    /\ conn = "open"
    /\ \E code \in {"remote", "error"} : Terminate(code)
    /\ UNCHANGED <<own_id, timeout, requested, sent, pending, last, announced,
                   thread, attempts, pongs, delivery, inbox, beyond>>

\* a delivery thread ends: send_android_notification returned, Ok or Err,
\* and nobody looks at the result
DeliveryDone ==
    /\ pending > 0
    /\ pending' = pending - 1
    /\ UNCHANGED delivery
    /\ UNCHANGED <<conn, closeCode, own_id, timeout, queue, timers, requested,
                   sent, last, announced, thread, attempts, pongs, inbox,
                   beyond>>

\* as DeliveryFailed, with a delivery that is made again when it failed
DeliveryFailed_Retries ==
    /\ pending > 0
    /\ pending' = pending
    /\ delivery' = Some("failed")
    /\ UNCHANGED <<conn, closeCode, own_id, timeout, queue, timers, requested,
                   sent, last, announced, thread, attempts, pongs, inbox,
                   beyond>>

\* a delivery thread ends with Err, because signal-cli could not be started
\* or waited for: as DeliveryDone, and the failure is noted
DeliveryFailed ==
    /\ pending > 0
    /\ pending' = pending - 1
    /\ delivery' = Some("failed")
    /\ UNCHANGED <<conn, closeCode, own_id, timeout, queue, timers, requested,
                   sent, last, announced, thread, attempts, pongs, inbox,
                   beyond>>

\* connect has returned, with Ok or with the error that is logged: the
\* closure of the session thread ends with Ok(()), there is no loop around
\* connect
ThreadReturn ==
    /\ conn = "closed"
    /\ thread = "running"
    /\ thread' = "returned"
    /\ UNCHANGED <<conn, closeCode, own_id, timeout, queue, timers, requested,
                   sent, pending, last, announced, attempts, pongs, delivery,
                   inbox, beyond>>

Next ==
    \/ on_open
    \/ ConnectFailed
    \/ Signal
    \/ on_timeout
    \/ on_message
    \/ on_frame_pong
    \/ on_frame_rsv
    \/ RemoteClose
    \/ DeliveryDone

Spec == Init /\ [][Next]_vars

TypeOK ==
    /\ conn \in {"connecting", "open", "closed", "panicked"}
    /\ own_id \in {None} \cup {Some(u) : u \in UserIds}
    /\ announced \in StatusNames
    /\ pending \in 0..MaxDeliveries
    /\ requested \in 0..MaxTimers

(***************************************************************************)
(* The session followed for its timers and its thread: few kinds of text   *)
(* frames, more timer requests, the return of the thread and the           *)
(* scheduling of the event loop.                                           *)
(***************************************************************************)
KeepaliveFrames ==
    {Push("hello", [server_version |-> "5"], None, u) : u \in {"U1", ""}}
    \cup
    {Push("posted", PostedData("D", 0, Some(<<"U2", "U1">>)), None, ""),
     [shape |-> "garbage"]}

KeepaliveTimeout == OnTimeout(MaxRequests)

KeepaliveMessage ==
    OnMessage(KeepaliveFrames, MaxDeliveries) /\ UNCHANGED inbox

KeepalivePong == OnFramePong(MaxRequests)

KeepaliveNext ==
    \/ on_open
    \/ ConnectFailed
    \/ Signal
    \/ KeepaliveTimeout
    \/ KeepaliveMessage
    \/ KeepalivePong
    \/ on_frame_rsv
    \/ RemoteClose
    \/ DeliveryDone
    \/ ThreadReturn

TimerIds == 1..MaxRequests

\* the timer with this id is due and on_timeout is called for it
Fires(id) ==
    /\ KeepaliveTimeout
    /\ \E t \in timers : t.id = id /\ timers' = timers \ {t}

\* The event loop takes every queued signal in the end, a timer that stays
\* set becomes due, and connect returns once its event loop has ended.
\* Nothing makes the server send a frame or keeps it from closing.
Keepalive ==
    /\ Init
    /\ [][KeepaliveNext]_vars
    /\ WF_vars(Signal)
    /\ \A id \in TimerIds : WF_vars(Fires(id))
    /\ WF_vars(ThreadReturn)

(***************************************************************************)
(* The session followed for its deliveries: few kinds of text frames, more *)
(* pending deliveries, and deliveries that fail.                           *)
(***************************************************************************)
DeliveryFrames ==
    {Push("hello", [server_version |-> "5"], None, "U1"),
     Push("posted", PostedData("D", 0, Some(<<"U2", "U1">>)), None, ""),
     [shape |-> "garbage"]}

DeliveryMessage ==
    OnMessage(DeliveryFrames, MaxPending) /\ UNCHANGED inbox

DeliveryNext ==
    \/ on_open
    \/ ConnectFailed
    \/ Signal
    \/ on_timeout
    \/ DeliveryMessage
    \/ on_frame_pong
    \/ on_frame_rsv
    \/ RemoteClose
    \/ DeliveryDone
    \/ DeliveryFailed

Delivery == Init /\ [][DeliveryNext]_vars

(***************************************************************************)
(* The process of one configured server: run checks the credentials,       *)
(* spawns the session thread and the watchdog thread, and joins them.      *)
(***************************************************************************)
\* run has read the configuration and has checked no server yet
ProcessInit ==
    /\ conn = "none"
    /\ closeCode = None
    /\ own_id = None
    /\ timeout = None
    /\ queue = <<>>
    /\ timers = {}
    /\ requested = 0
    /\ sent = <<>>
    /\ pending = 0
    /\ last = None
    /\ announced = "online"
    /\ thread = "none"
    /\ attempts = 0
    /\ pongs = 0
    /\ delivery = None
    /\ watchdog = "none"
    /\ process = "startup"
    /\ arrived = <<>>
    /\ inbox = <<>>
    /\ peer = NoPeer
    /\ codec = NoCodec
    /\ clock = NoTime
    /\ poll = NoPoll

\* how the check of a server at startup comes out: Client::new fails, or
\* is_token_valid answers
StartupChecks == {"no_client", "invalid", "valid"}

\* the loop of run over the servers: the two threads are spawned when the
\* client could be built and the token is valid, and only then; the session
\* thread calls connect, whose factory queues the authentication challenge.
\* With no handle to join, run returns Ok(()) and main ends
run_check ==
    /\ process = "startup"
    /\ \E check \in StartupChecks :
         IF check = "valid"
         THEN /\ thread' = "running"
              /\ watchdog' = "checking"
              /\ conn' = "connecting"
              /\ queue' = <<[sig |-> "send", seq |-> 1,
                             action |-> "authentication_challenge",
                             token |-> token]>>
              /\ attempts' = 1
              /\ process' = "joining"
         ELSE /\ process' = "exited"
              /\ UNCHANGED <<thread, watchdog, conn, queue, attempts>>
    /\ UNCHANGED <<closeCode, own_id, timeout, timers, requested, sent,
                   pending, last, announced, pongs, delivery, arrived, inbox,
                   poll, others>>

\* the session of the server configured next when the process has ended:
\* its thread is gone with its handler and its event loop
Killed(p) ==
    IF p.conn = "none"
    THEN p
    ELSE [conn |-> "dead", own_id |-> None, timers |-> {}]

\* handle.join().unwrap()? on the session thread, the first handle: a thread
\* that returned Ok(()) lets run go on to join the watchdog, which returns
\* never; a thread that panicked makes unwrap panic in main, and the process
\* ends with all its threads, those of the other servers included
run_join ==
    /\ process = "joining"
    /\ \/ /\ thread = "returned"
          /\ process' = "waiting"
          /\ UNCHANGED <<watchdog, pending, peer>>
       \/ /\ thread = "panicked"
          /\ process' = "exited"
          /\ watchdog' = "dead"
          /\ pending' = 0
          /\ peer' = Killed(peer)
    /\ UNCHANGED <<conn, closeCode, own_id, timeout, queue, timers, requested,
                   sent, last, announced, thread, attempts, pongs, delivery,
                   arrived, inbox, codec, clock, poll>>

\* the watchdog is in its loop
Polling == {"checking", "alerting", "sleeping"}

\* what get_users comes to: the request could not be sent, the server
\* answered 400, 401 or 403, the body of another answer is no list of users,
\* or it is one
GetUsersResults ==
    {"send_failed", "bad_request", "unauthorized", "forbidden", "undecodable",
     "users"}

\* is_token_valid: get_users(0, 0).is_ok()
is_token_valid(res) == res = "users"

\* as watchdog_check, with a request that failed taken for a valid token
watchdog_check_FailureIsQuiet ==
    /\ watchdog = "checking"
    /\ \E res \in GetUsersResults :
         /\ watchdog' = IF res \in {"users", "send_failed", "undecodable"}
                        THEN "sleeping"
                        ELSE "alerting"
         /\ poll' = [check |-> res, alerts |-> 0]
    /\ UNCHANGED <<conn, closeCode, own_id, timeout, queue, timers, requested,
                   sent, pending, last, announced, thread, attempts, pongs,
                   delivery, process, arrived, inbox, others>>

\* the watchdog thread calls is_token_valid: a token that is not valid is
\* alerted, then it sleeps
watchdog_check ==
    /\ watchdog = "checking"
    /\ \E res \in GetUsersResults :
         /\ watchdog' = IF is_token_valid(res) THEN "sleeping" ELSE "alerting"
         /\ poll' = [check |-> res, alerts |-> 0]
    /\ UNCHANGED <<conn, closeCode, own_id, timeout, queue, timers, requested,
                   sent, pending, last, announced, thread, attempts, pongs,
                   delivery, process, arrived, inbox, others>>

\* send_android_notification in the watchdog thread has returned: an Err is
\* logged with warn!, and the thread goes to sleep
watchdog_alert ==
    /\ watchdog = "alerting"
    /\ watchdog' = "sleeping"
    /\ poll' = [poll EXCEPT !.alerts = @ + 1]
    /\ UNCHANGED <<conn, closeCode, own_id, timeout, queue, timers, requested,
                   sent, pending, last, announced, thread, attempts, pongs,
                   delivery, process, arrived, inbox, others>>

\* thread::sleep of six hours is over
watchdog_sleep ==
    /\ watchdog = "sleeping"
    /\ watchdog' = "checking"
    /\ UNCHANGED <<conn, closeCode, own_id, timeout, queue, timers, requested,
                   sent, pending, last, announced, thread, attempts, pongs,
                   delivery, process, arrived, inbox, poll, others>>

ProcessMessage ==
    OnMessage(DeliveryFrames, MaxDeliveries) /\ UNCHANGED inbox

ProcessNext ==
    \/ run_check
    \/ run_join
    \/ watchdog_check
    \/ watchdog_alert
    \/ watchdog_sleep
    \/ on_open
    \/ ConnectFailed
    \/ Signal
    \/ on_timeout
    \/ ProcessMessage
    \/ on_frame_pong
    \/ on_frame_rsv
    \/ RemoteClose
    \/ DeliveryDone
    \/ ThreadReturn

Process == ProcessInit /\ [][ProcessNext]_vars

(***************************************************************************)
(* The session followed for the order of its text frames: the event loop   *)
(* reads the frames from the socket and calls the handler for one frame    *)
(* after the other, in the one thread of connect.                          *)
(***************************************************************************)
InboundFrames ==
    {Push("hello", [server_version |-> "5"], None, "U1"),
     Push("hello", [server_version |-> "5"], None, "U2"),
     Push("posted", PostedData("O", 0, Some(<<"U1">>)), None, "")}

\* a text frame has been read from the socket
Arrive ==
    /\ conn = "open"
    /\ Len(arrived) < MaxArrivals
    /\ \E frame \in InboundFrames :
         /\ arrived' = Append(arrived, frame)
         /\ inbox' = Append(inbox, frame)
    /\ UNCHANGED <<conn, closeCode, own_id, timeout, queue, timers, requested,
                   sent, pending, last, announced, thread, attempts, pongs,
                   delivery, watchdog, process, poll, others>>

\* as InboundMessage, with an event loop that calls the handler for the
\* frame read last
InboundMessage_NewestFirst ==
    /\ inbox # <<>>
    /\ OnMessage({inbox[Len(inbox)]}, MaxPending)
    /\ inbox' = SubSeq(inbox, 1, Len(inbox) - 1)

\* the event loop calls on_frame and on_message for the oldest frame it has
\* read, and takes the next when the handler has returned
InboundMessage ==
    /\ inbox # <<>>
    /\ OnMessage({Head(inbox)}, MaxPending)
    /\ inbox' = Tail(inbox)

InboundNext ==
    \/ on_open
    \/ ConnectFailed
    \/ Signal
    \/ Arrive
    \/ InboundMessage
    \/ RemoteClose
    \/ DeliveryDone

Inbound == Init /\ [][InboundNext]_vars

(***************************************************************************)
(* Two configured servers: the session modelled so far is that of the      *)
(* first, whose handle run joins first; peer is the session of the second, *)
(* with a handler and an event loop of its own in a thread of its own.     *)
(***************************************************************************)
\* both servers passed the check of run, and both session threads are in
\* the factory closure of their connect
ServersInit ==
    /\ conn = "connecting"
    /\ closeCode = None
    /\ own_id = None
    /\ timeout = None
    /\ queue = <<[sig |-> "send", seq |-> 1,
                  action |-> "authentication_challenge", token |-> token]>>
    /\ timers = {}
    /\ requested = 0
    /\ sent = <<>>
    /\ pending = 0
    /\ last = None
    /\ announced = "online"
    /\ thread = "running"
    /\ attempts = 1
    /\ pongs = 0
    /\ delivery = None
    /\ watchdog = "checking"
    /\ process = "joining"
    /\ arrived = <<>>
    /\ inbox = <<>>
    /\ peer = [conn |-> "connecting", own_id |-> None, timers |-> {}]
    /\ codec = NoCodec
    /\ clock = NoTime
    /\ poll = NoPoll

\* a step of the thread of the second session: it writes its own handler
\* and its own event loop, and nothing else
PeerStep(new) ==
    /\ peer' = new
    /\ UNCHANGED <<conn, closeCode, own_id, timeout, queue, timers, requested,
                   sent, pending, last, announced, thread, attempts, pongs,
                   delivery, watchdog, process, arrived, inbox, codec,
                   clock, poll>>

\* on_open of the second session
peer_open ==
    /\ peer.conn = "connecting"
    /\ PeerStep([peer EXCEPT !.conn = "open", !.timers = {PING, EXPIRE}])

\* the Hello arm of the second session
peer_hello ==
    /\ peer.conn = "open"
    /\ \E u \in UserIds : PeerStep([peer EXCEPT !.own_id = Some(u)])

\* the second connection ends, by its EXPIRE timer or from outside
peer_close ==
    /\ peer.conn \in {"connecting", "open"}
    /\ PeerStep([peer EXCEPT !.conn = "closed", !.timers = {}])

PeerNext ==
    \/ peer_open
    \/ peer_hello
    \/ peer_close

ServersNext ==
    \/ on_open
    \/ Signal
    \/ on_timeout
    \/ ProcessMessage
    \/ RemoteClose
    \/ DeliveryDone
    \/ ThreadReturn
    \/ run_join
    \/ peer_open
    \/ peer_hello
    \/ peer_close

Servers == ServersInit /\ [][ServersNext]_vars

(***************************************************************************)
(* The serialize module: a value is taken through its functions, while the *)
(* session stays as the factory left it.  A string is the sequence of its  *)
(* characters; none of the characters followed is one JSON escapes with a  *)
(* backslash, but the quote.                                               *)
(***************************************************************************)
QUOTE == "\""
SPACE == " "
Chars == {"#", "a", SPACE, QUOTE}
TokenChars == {"#", "a"}

\* the sequences over S of length at most n
SeqsUpTo(S, n) == UNION {[1..k -> S] : k \in 0..n}

\* the result of a function of the module
Ok(v) == [ok |-> TRUE, v |-> v]
Err == [ok |-> FALSE, v |-> <<>>]

\* str::split_whitespace: the maximal runs without whitespace, in order
RECURSIVE SplitWhitespace(_)
SplitWhitespace(text) ==
    IF text = <<>>
    THEN <<>>
    ELSE IF Head(text) = SPACE
    THEN SplitWhitespace(Tail(text))
    ELSE LET spaces == {i \in 1..Len(text) : text[i] = SPACE}
             stop == IF spaces = {}
                     THEN Len(text) + 1
                     ELSE CHOOSE i \in spaces : \A j \in spaces : i <= j
         IN  <<SubSeq(text, 1, stop - 1)>>
                 \o SplitWhitespace(SubSeq(text, stop, Len(text)))

\* serde_json::from_str::<String> of a quote, v and a quote: a quote inside
\* v ends the string early and leaves trailing characters, which is an error
FromQuoted(v) ==
    IF \E i \in 1..Len(v) : v[i] = QUOTE THEN Err ELSE Ok(v)

\* serde_json::to_writer of a String: the characters between quotes, a quote
\* among them behind a backslash
RECURSIVE Escaped(_)
Escaped(v) ==
    IF v = <<>>
    THEN <<>>
    ELSE (IF Head(v) = QUOTE THEN <<"\\", QUOTE>> ELSE <<Head(v)>>)
             \o Escaped(Tail(v))

ToQuoted(v) == <<QUOTE>> \o Escaped(v) \o <<QUOTE>>

\* string_set::deserialize: visit_unit for null, visit_str for a string,
\* and the error of the default visit methods for any other value
StringSetDeserialize(json) ==
    IF json.json = "null"
    THEN Ok({})
    ELSE IF json.json = "string"
    THEN LET parts == SplitWhitespace(json.text)
         IN  IF \E i \in 1..Len(parts) : ~FromQuoted(parts[i]).ok
             THEN Err
             ELSE Ok({FromQuoted(parts[i]).v : i \in 1..Len(parts)})
    ELSE Err

\* the orders in which a HashSet may be iterated
Orders(set) ==
    {order \in [1..Cardinality(set) -> set] :
        \A i, j \in 1..Cardinality(set) : order[i] = order[j] => i = j}

\* string_set::serialize, iterating in order: every element is written as
\* serde_json writes it, and a space after each
RECURSIVE StringSetBytes(_)
StringSetBytes(order) ==
    IF order = <<>>
    THEN <<>>
    ELSE ToQuoted(Head(order)) \o <<SPACE>> \o StringSetBytes(Tail(order))

\* str::split with the separator of SpaceSeparator: the pieces between the
\* spaces, the empty ones included
RECURSIVE SplitOnSpace(_)
SplitOnSpace(text) ==
    LET spaces == {i \in 1..Len(text) : text[i] = SPACE}
    IN  IF spaces = {}
        THEN <<text>>
        ELSE LET stop == CHOOSE i \in spaces : \A j \in spaces : i <= j
             IN  <<SubSeq(text, 1, stop - 1)>>
                     \o SplitOnSpace(SubSeq(text, stop + 1, Len(text)))

\* StringWithSeparator::<SpaceSeparator>::deserialize, the decoder the set
\* fields name: a String is deserialized, which null is not; the empty
\* string gives the empty set, any other is split
StringWithSeparatorDeserialize(json) ==
    IF json.json # "string"
    THEN Err
    ELSE IF json.text = <<>>
    THEN Ok({})
    ELSE LET parts == SplitOnSpace(json.text)
         IN  Ok({parts[i] : i \in 1..Len(parts)})

\* StringWithSeparator::<SpaceSeparator>::serialize, iterating in order: the
\* elements as to_string gives them, with a separator between each two
RECURSIVE StringWithSeparatorText(_)
StringWithSeparatorText(order) ==
    IF order = <<>>
    THEN <<>>
    ELSE IF Len(order) = 1
    THEN Head(order)
    ELSE Head(order) \o <<SPACE>> \o StringWithSeparatorText(Tail(order))

\* derive(Serialize) of Events, the content beside the tag: the fields by
\* their wire names, the post of Posted as a string of JSON and its
\* mentions left out when None, the delete_at of ChannelDeleted always
\* written
EventsSerialize(e) ==
    IF e.event = "posted"
    THEN [event |-> e.event,
          data |-> [channel_type |-> CHOOSE k \in DOMAIN ChannelType :
                                        ChannelType[k] = e.data.channel_type,
                    channel_display_name |-> e.data.channel_display_name,
                    sender_name |-> e.data.sender_name,
                    message |-> e.data.message,
                    create_at |-> TsSerialize([secs |-> e.data.create_at,
                                               millis |-> 0]),
                    mentions |-> e.data.mentions,
                    nested |-> "string"]]
    ELSE IF e.event = "channel_deleted"
    THEN [event |-> e.event,
          data |-> [channel_id |-> e.data.channel_id,
                    delete_at |-> <<OptionTsSerialize(e.data.delete_at)>>]]
    ELSE [event |-> e.event, data |-> e.data]

\* derive(Deserialize) of Events, as part of a push
EventsDeserialize(wire) ==
    LET msg == Decode([shape |-> "push", event |-> wire.event,
                       data |-> wire.data, broadcast |-> Broadcast(<<>>, "")])
    IN  IF msg.ok
        THEN [ok |-> TRUE, v |-> [event |-> msg.event, data |-> msg.data]]
        ELSE [ok |-> FALSE, v |-> <<>>]

\* instants of millisecond precision around the epoch
Instants ==
    {[secs |-> 0, millis |-> 0], [secs |-> 82799, millis |-> 999],
     [secs |-> -1, millis |-> 999]}

\* events of recognized kinds, with and without their optional fields
EventInputs ==
    {[event |-> "hello", data |-> [server_version |-> "5"]]}
    \cup
    {[event |-> "posted",
      data |-> [channel_type |-> ct, channel_display_name |-> "Town Square",
                sender_name |-> "alice", message |-> "hi", create_at |-> at,
                mentions |-> m]] :
        ct \in {"Open", "DirectMessage"}, at \in {0, 82799},
        m \in {<<>>, <<<<"U2">>>>, <<<<"U2", "U1">>>>}}
    \cup
    {[event |-> "channel_deleted",
      data |-> [channel_id |-> "c1", delete_at |-> at]] :
        at \in {<<>>} \cup {<<i>> : i \in Instants}}

\* what the codecs are given: the JSON value of a string-set field, a set
\* of tokens without whitespace, an event, or the JSON value of a timestamp
\* in milliseconds
CodecInputs ==
    {[kind |-> "event", trail |-> <<>>, stages |-> <<Ok(e)>>] :
        e \in EventInputs}
    \cup
    {[kind |-> "ts_ms", trail |-> <<>>, stages |-> <<Ok(JsonInt(v))>>] :
        v \in -MaxMillis..MaxMillis}
    \cup
    {[kind |-> "string_set_json", trail |-> <<>>, stages |-> <<Ok(json)>>] :
        json \in {JsonNull} \cup
                 {JsonString(text) : text \in SeqsUpTo(Chars, MaxLen)}}
    \cup
    {[kind |-> "string_set", trail |-> <<>>, stages |-> <<Ok(set)>>] :
        set \in {m \in SUBSET (SeqsUpTo(TokenChars, 2) \ {<<>>}) :
                    Cardinality(m) <= MaxMembers}}

CodecInit ==
    /\ conn = "connecting"
    /\ closeCode = None
    /\ own_id = None
    /\ timeout = None
    /\ queue = <<[sig |-> "send", seq |-> 1,
                  action |-> "authentication_challenge", token |-> token]>>
    /\ timers = {}
    /\ requested = 0
    /\ sent = <<>>
    /\ pending = 0
    /\ last = None
    /\ announced = "online"
    /\ thread = "running"
    /\ attempts = 1
    /\ pongs = 0
    /\ delivery = None
    /\ watchdog = "checking"
    /\ process = "joining"
    /\ arrived = <<>>
    /\ inbox = <<>>
    /\ peer = NoPeer
    /\ codec \in CodecInputs
    /\ clock = NoTime
    /\ poll = NoPoll

\* the result of the function applied last
Stage == codec.stages[Len(codec.stages)]

\* a function of the module is applied to the last result
Apply(name, result) ==
    /\ codec' = [codec EXCEPT !.trail = Append(@, name),
                              !.stages = Append(@, result)]
    /\ UNCHANGED <<conn, closeCode, own_id, timeout, queue, timers, requested,
                   sent, pending, last, announced, thread, attempts, pongs,
                   delivery, watchdog, process, arrived, inbox, peer,
                   clock, poll>>

\* string_set::serialize of a set
string_set_serialize ==
    /\ codec.kind = "string_set"
    /\ codec.trail = <<>>
    /\ \E order \in Orders(Stage.v) :
         Apply("string_set::serialize",
               Ok(JsonString(StringSetBytes(order))))

\* string_set::deserialize of a JSON value: one that was given, or the one
\* string_set::serialize produced
string_set_deserialize ==
    /\ \/ codec.kind = "string_set_json" /\ codec.trail = <<>>
       \/ codec.kind = "string_set"
            /\ codec.trail = <<"string_set::serialize">>
    /\ Apply("string_set::deserialize", StringSetDeserialize(Stage.v))

\* a set field such as Post::hashtags is serialized
hashtags_serialize ==
    /\ codec.kind = "string_set"
    /\ codec.trail = <<>>
    /\ \E order \in Orders(Stage.v) :
         Apply("hashtags::serialize",
               Ok(JsonString(StringWithSeparatorText(order))))

\* a set field such as Post::hashtags is deserialized, from a JSON value
\* that was given, or from the one its serializer produced
hashtags_deserialize ==
    /\ \/ codec.kind = "string_set_json" /\ codec.trail = <<>>
       \/ codec.kind = "string_set"
            /\ codec.trail = <<"hashtags::serialize">>
    /\ Apply("hashtags::deserialize",
             StringWithSeparatorDeserialize(Stage.v))

\* an event is serialized
events_serialize ==
    /\ codec.kind = "event"
    /\ codec.trail = <<>>
    /\ Apply("Events::serialize", Ok(EventsSerialize(Stage.v)))

\* what Events::serialize produced is deserialized
events_deserialize ==
    /\ codec.kind = "event"
    /\ codec.trail = <<"Events::serialize">>
    /\ Apply("Events::deserialize", EventsDeserialize(Stage.v))

\* ts_seconds::deserialize, and option_ts_milliseconds::deserialize with the
\* same visitor, of an integer of milliseconds
ts_deserialize ==
    /\ codec.kind = "ts_ms"
    /\ codec.trail = <<>>
    /\ Apply("ts::deserialize",
             LET ts == TsDeserialize(Stage.v.int)
             IN  IF ts.ok
                 THEN Ok([secs |-> ts.secs, millis |-> ts.millis])
                 ELSE Err)

\* ts_seconds::serialize of the instant that was decoded
ts_serialize ==
    /\ codec.kind = "ts_ms"
    /\ codec.trail = <<"ts::deserialize">>
    /\ Stage.ok
    /\ Apply("ts::serialize", Ok(JsonInt(TsSerialize(Stage.v))))

CodecNext ==
    \/ string_set_serialize
    \/ string_set_deserialize
    \/ hashtags_serialize
    \/ hashtags_deserialize
    \/ events_serialize
    \/ events_deserialize
    \/ ts_deserialize
    \/ ts_serialize

Codec == CodecInit /\ [][CodecNext]_vars

(***************************************************************************)
(* The session followed with its clock.  Time is counted in keepalive      *)
(* intervals from the moment the connection opens.  The event loop takes   *)
(* the signals of the handler and calls it for the timers that are due     *)
(* before time goes on; a timer set at one time is due its interval later. *)
(***************************************************************************)
\* the interval of a timer, in keepalive intervals
Interval(tok) ==
    (IF tok = PING THEN PING_TIMEOUT ELSE EXPIRE_TIMEOUT) \div PING_TIMEOUT

\* the timers that are due
Due == {t \in timers : t.id \in DOMAIN clock.due /\ clock.due[t.id] <= clock.now}

\* timer requests the session is followed for: the two of on_open, and a
\* keepalive tick and a pong in every interval
TimedRequests == 2 + 2 * MaxTime

\* the probes written so far
ProbesSent == {i \in 1..Len(sent) : sent[i] = [ping |-> PING_PONG]}

\* on_timeout for a timer that is due
TimedTimeout ==
    /\ OnTimeout(TimedRequests)
    /\ timers \ timers' \subseteq Due

\* the server answers a probe: on_frame for the pong
TimedPong ==
    /\ Cardinality(ProbesSent) > pongs
    /\ OnFramePong(TimedRequests)

\* a keepalive interval passes: no signal is waiting and no timer is due.
\* The timers set since time last went on are due their interval from now
Tick ==
    /\ conn = "open"
    /\ queue = <<>>
    /\ Due = {}
    /\ clock.now < MaxTime
    /\ clock' =
         [now |-> clock.now + 1,
          due |-> [id \in {t.id : t \in timers} |->
                     IF id \in DOMAIN clock.due
                     THEN clock.due[id]
                     ELSE clock.now + Interval(
                              (CHOOSE t \in timers : t.id = id).token)],
          prompt |-> clock.prompt /\ Cardinality(ProbesSent) = pongs]
    /\ UNCHANGED <<conn, closeCode, own_id, timeout, queue, timers, requested,
                   sent, pending, last, announced, thread, attempts, pongs,
                   delivery, watchdog, process, arrived, inbox, peer, codec,
                   poll>>

TimedNext ==
    \/ on_open
    \/ Signal
    \/ TimedTimeout
    \/ TimedPong
    \/ Tick

Timed == Init /\ [][TimedNext]_vars

(***************************************************************************)
(* The mutable fields of the handler, and what the last call of            *)
(* react_to_message saw and did.                                           *)
(***************************************************************************)
WsClient == [timeout |-> timeout, own_id |-> own_id]

\* the last call handled a decoded push of this kind
Handled(kind) ==
    /\ IsSome(last)
    /\ Decode(Unwrap(last).frame).ok
    /\ Decode(Unwrap(last).frame).shape = "push"
    /\ Decode(Unwrap(last).frame).event = kind

\* the last call handled a decoded push of any kind
HandledPush ==
    /\ IsSome(last)
    /\ Decode(Unwrap(last).frame).ok
    /\ Decode(Unwrap(last).frame).shape = "push"

LastMsg == Decode(Unwrap(last).frame)

LastOwn == Unwrap(last).own_id

LastSpawned == Unwrap(last).spawned

\* the post of the last call mentions the own account id
LastMentionsOwn ==
    /\ IsSome(LastOwn)
    /\ IsSome(LastMsg.data.mentions)
    /\ Contains(Unwrap(LastMsg.data.mentions), Unwrap(LastOwn))

\* the broadcast of the last call marks the own account id as omitted
LastSuppressed ==
    /\ IsSome(LastOwn)
    /\ IsSome(LastMsg.broadcast.omit_users)
    /\ Unwrap(LastOwn) \in DOMAIN Unwrap(LastMsg.broadcast.omit_users)
    /\ Unwrap(LastMsg.broadcast.omit_users)[Unwrap(LastOwn)]

(***************************************************************************)
(* C1: with the own account id set, no suppression map and a presence      *)
(* other than do-not-disturb, a posted event in an Open or Private channel *)
(* that mentions the own id gives exactly one notification request, whose  *)
(* text begins with "{server} {sender} in {channel}:\n".                   *)
(***************************************************************************)
C1_ChannelPostNotifies ==
    (/\ Handled("posted")
     /\ ~IsSome(LastMsg.broadcast.omit_users)
     /\ announced # "dnd"
     /\ LastMsg.data.channel_type \in {"Open", "Private"}
     /\ LastMentionsOwn)
    => /\ Len(LastSpawned) = 1
       /\ Len(LastSpawned[1].text) >= 6
       /\ SubSeq(LastSpawned[1].text, 1, 6) =
            <<servername, " ", LastMsg.data.sender_name, " in ",
              LastMsg.data.channel_display_name, ":\n">>

C1_Witness ==
    /\ Handled("posted")
    /\ ~IsSome(LastMsg.broadcast.omit_users)
    /\ announced = "away"
    /\ LastMsg.data.channel_type = "Private"
    /\ LastMentionsOwn
    /\ Len(LastSpawned) = 1

(***************************************************************************)
(* C2: while the presence of the own account is do-not-disturb, handling   *)
(* an event produces no notification request, whatever the channel kind    *)
(* and the mentions.                                                       *)
(***************************************************************************)
C2_DndMutesAll ==
    (IsSome(last) /\ announced = "dnd") => LastSpawned = <<>>

(***************************************************************************)
(* C3: an envelope whose suppression map maps the own account id to true   *)
(* produces no notification request, whatever its event kind and mentions. *)
(***************************************************************************)
C3_SuppressedNeverNotifies ==
    (HandledPush /\ LastSuppressed) => LastSpawned = <<>>

C3_Witness ==
    /\ Handled("posted")
    /\ LastSuppressed
    /\ LastMentionsOwn
    /\ LastMsg.data.channel_type = "Open"
    /\ LastSpawned = <<>>

(***************************************************************************)
(* C4: a posted event whose mentions list is absent, or does not contain   *)
(* the own account id, produces no notification request.                   *)
(***************************************************************************)
C4_UnmentionedNeverNotifies ==
    (Handled("posted") /\ ~LastMentionsOwn) => LastSpawned = <<>>

C4_Witness ==
    /\ Handled("posted")
    /\ LastOwn = Some("U1")
    /\ LastMsg.data.mentions = Some(<<"U2">>)
    /\ ~IsSome(LastMsg.broadcast.omit_users)
    /\ LastMsg.data.channel_type = "Open"
    /\ LastSpawned = <<>>

(***************************************************************************)
(* C5: an event of any kind other than posted produces no notification     *)
(* request, in every session state.                                        *)
(***************************************************************************)
C5_OnlyPostedNotifies ==
    (HandledPush /\ LastMsg.event # "posted") => LastSpawned = <<>>

C5_Witness ==
    /\ Handled("post_edited")
    /\ LastOwn = Some("U1")
    /\ LastMsg.data.user_id = "U1"
    /\ ~IsSome(LastMsg.broadcast.omit_users)
    /\ LastSpawned = <<>>

\* the post of the last call qualifies for a notification: it mentions the
\* own account id, is not suppressed, and the presence is not do-not-disturb
LastQualifies ==
    /\ Handled("posted")
    /\ LastMentionsOwn
    /\ ~LastSuppressed
    /\ announced # "dnd"

(***************************************************************************)
(* C6: a qualifying post gives one notification whose text depends on the  *)
(* channel kind: direct-message and group channels give                    *)
(* "{server} {sender}:\n{message}\n@{time}", open and private channels     *)
(* give "{server} {sender} in {channel}:\n{message}\n@{time}".             *)
(***************************************************************************)
C6_TextByChannelKind ==
    LastQualifies =>
        LET d == LastMsg.data
        IN  /\ d.channel_type \in {"DirectMessage", "Group"} =>
                  /\ Len(LastSpawned) = 1
                  /\ Len(LastSpawned[1].text) = 7
                  /\ SubSeq(LastSpawned[1].text, 1, 6) =
                       <<servername, " ", d.sender_name, ":\n", d.message,
                         "\n@">>
            /\ d.channel_type \in {"Open", "Private"} =>
                  /\ Len(LastSpawned) = 1
                  /\ Len(LastSpawned[1].text) = 9
                  /\ SubSeq(LastSpawned[1].text, 1, 8) =
                       <<servername, " ", d.sender_name, " in ",
                         d.channel_display_name, ":\n", d.message, "\n@">>

(***************************************************************************)
(* C7: a posted event in a channel of the internal kind never produces a   *)
(* notification request, and handling it does not fail.                    *)
(***************************************************************************)
C7_InternalNeverNotifies ==
    (Handled("posted") /\ LastMsg.data.channel_type = "Internal")
    => /\ LastSpawned = <<>>
       /\ ~Unwrap(last).panic
       /\ conn # "panicked"

(***************************************************************************)
(* C8: handling a hello event sets the own account id to the broadcast     *)
(* user id of the envelope and produces no notification request.           *)
(***************************************************************************)
C8_HelloSetsOwnId ==
    Handled("hello")
    => /\ own_id = Some(LastMsg.broadcast.user_id)
       /\ LastSpawned = <<>>

(***************************************************************************)
(* C9: within one connection the own account id, once set, is never absent *)
(* again, whatever frames, timer events and delivery hand-offs follow.     *)
(***************************************************************************)
C9_OwnIdNeverCleared == [][IsSome(own_id) => IsSome(own_id')]_vars

C9_Witness ==
    /\ IsSome(own_id)
    /\ IsSome(last)
    /\ IsSome(LastOwn)
    /\ requested > 2
    /\ conn = "closed"
    /\ closeCode = Some("Away")

(***************************************************************************)
(* C10: handling a presence change of the own account id overwrites the    *)
(* presence stored in the session with the status of the event and         *)
(* produces no notification; a presence change of another account leaves   *)
(* the stored presence as it is.  The stored presence can only be          *)
(* overwritten with a different status if the state of the handler         *)
(* changes.                                                                *)
(***************************************************************************)
C10_OwnPresenceOverwritten ==
    [][(/\ IsSome(last')
        /\ Decode(Unwrap(last').frame).ok
        /\ Decode(Unwrap(last').frame).shape = "push"
        /\ Decode(Unwrap(last').frame).event = "status_change"
        /\ announced' # announced)
       => /\ Unwrap(last').own_id =
               Some(Decode(Unwrap(last').frame).data.user_id)
          /\ announced' = Decode(Unwrap(last').frame).data.status
          /\ WsClient' # WsClient
          /\ Unwrap(last').spawned = <<>>]_vars

(***************************************************************************)
(* The session thread and its connections.                                 *)
(***************************************************************************)
\* connections of the session thread that have ended
Failures == IF conn = "closed" THEN 1 ELSE 0

\* C11: after a connection has ended, for whatever reason, the session
\* thread connects again in the end.
C11_RestartAfterTermination == (conn = "closed") ~> (conn = "connecting")

\* C12: every connection that ended is followed by one new attempt, so a
\* session thread that has come to rest has made one attempt more than it
\* has seen connections end.
C12_OneAttemptPerFailure ==
    (thread = "returned") => (attempts = Failures + 1)

\* the session state a handler is built with
Fresh == own_id = None /\ timeout = None /\ announced = "online"

EndedOtherwise ==
    closeCode \in {Some("remote"), Some("error"), Some("Protocol"),
                   Some("panic")}

\* C14: an open connection on which no pong with our payload has been
\* received is closed by the client with the code Away in the end, unless
\* such a pong arrives or the connection ends in another way before.
C14_IdleExpiryCloses ==
    (conn = "open" /\ pongs = 0)
        ~> (closeCode = Some("Away") \/ pongs > 0 \/ EndedOtherwise)

\* closed with Away, the close frame written, and never a matching pong
C14_Witness ==
    /\ closeCode = Some("Away")
    /\ pongs = 0
    /\ sent[Len(sent)] = [close |-> "Away"]

\* the idle-expiry timers set in the event loop
ExpireTimers == {t \in timers : t.token = EXPIRE}

\* on_timeout is called for this timer, which asks to close with Away
ExpireFired(t) ==
    /\ t \in ExpireTimers
    /\ timers' = timers \ {t}
    /\ queue' = Append(queue, [sig |-> "close", code |-> "Away"])

\* a pong with our payload was received after this timer was set: a new
\* EXPIRE timer is asked for, or the cancellation of this one is queued
Superseded(t) ==
    \E i \in 1..Len(queue) :
        \/ queue[i].sig = "timeout" /\ queue[i].token = EXPIRE
        \/ queue[i].sig = "cancel" /\ queue[i].id = t.id

\* C15: a pong with our payload cancels the idle-expiry timer that is set
\* and sets a new one, so that the timer it replaces never fires.
C15_CancelledNeverFires ==
    [][\A t \in ExpireTimers : ExpireFired(t) => ~Superseded(t)]_vars

\* C16: in every state at most one idle-expiry timer is set.
C16_OneExpireTimer == Cardinality(ExpireTimers) <= 1

\* the keepalive timers set, and those asked for and not yet registered
PingTimers == {t \in timers : t.token = PING}

PingRequests ==
    {i \in 1..Len(queue) : queue[i].sig = "timeout" /\ queue[i].token = PING}

\* the probes written so far
Probes == {i \in 1..Len(sent) : sent[i] = [ping |-> PING_PONG]}

\* on_timeout is called for this keepalive timer
PingFired(t) ==
    /\ t \in PingTimers
    /\ conn' = "open"
    /\ timers' = timers \ {t}

\* C17: on_open asks for both timers; every keepalive tick asks for one
\* probe with the fixed payload and for the next keepalive timer; an open
\* connection has always exactly one keepalive timer set or asked for; and
\* while it stays open another probe is written in the end, as far as the
\* model follows the session.
C17_KeepaliveProbes ==
    /\ [][(conn = "connecting" /\ conn' = "open") =>
            queue' = queue \o
              <<[sig |-> "timeout", ms |-> PING_TIMEOUT, token |-> PING],
                [sig |-> "timeout", ms |-> EXPIRE_TIMEOUT, token |-> EXPIRE]>>]_vars
    /\ [][\A t \in PingTimers : PingFired(t) =>
            queue' = queue \o
              <<[sig |-> "ping", payload |-> PING_PONG],
                [sig |-> "timeout", ms |-> PING_TIMEOUT, token |-> PING]>>]_vars
    /\ [](conn = "open" =>
            Cardinality(PingTimers) + Cardinality(PingRequests) = 1)
    /\ \A n \in 0..MaxRequests :
         (conn = "open" /\ Cardinality(Probes) = n)
            ~> (Cardinality(Probes) > n \/ conn # "open"
                \/ requested = MaxRequests)

\* a probe was written and the next keepalive timer is set
C17_Witness ==
    /\ conn = "open"
    /\ Cardinality(Probes) = 1
    /\ PingTimers # {}
    /\ requested < MaxRequests

\* C18: a frame with a reserved bit set aborts the open connection with a
\* protocol error; it is not handed to the dispatcher, asks for no timer,
\* counts as no pong and leaves the session state as it was.
C18_ReservedBitsAbort ==
    [][(closeCode = None /\ closeCode' = Some("Protocol")) =>
         /\ conn = "open" /\ conn' = "closed"
         /\ sent' = Append(sent, [close |-> "Protocol"])
         /\ WsClient' = WsClient
         /\ announced' = announced
         /\ last' = last /\ pending' = pending
         /\ requested' = requested /\ pongs' = pongs
         /\ queue' = <<>> /\ timers' = {}]_vars

\* aborted by a protocol error after hello and a matching pong
C18_Witness ==
    /\ closeCode = Some("Protocol")
    /\ IsSome(own_id)
    /\ IsSome(timeout)
    /\ pongs = 1

LastFrame == Unwrap(last).frame

\* C21: a text frame that fails to decode is dropped: the connection stays
\* open, the fields of the handler and the presence are as before, nothing
\* is handed to a delivery, no signal is queued and no timer touched, and
\* the handler can be called for the next frame.
C21_DecodeFailureDropped ==
    /\ [][(last' # last /\ IsSome(last') /\ ~Decode(Unwrap(last').frame).ok) =>
            /\ conn = "open" /\ conn' = "open"
            /\ WsClient' = WsClient
            /\ announced' = announced
            /\ Unwrap(last').spawned = <<>> /\ pending' = pending
            /\ ~Unwrap(last').panic
            /\ queue' = queue /\ timers' = timers /\ sent' = sent]_vars
    /\ []((IsSome(last) /\ ~LastMsg.ok /\ conn = "open") => ENABLED on_message)

\* a frame failed to decode after hello, and the connection is open
C21_Witness ==
    /\ IsSome(last)
    /\ ~LastMsg.ok
    /\ conn = "open"
    /\ own_id = Some("U1")
    /\ LastSpawned = <<>>

\* C22: an envelope whose event tag is none of the known ones decodes, to
\* the event "ignored".
C22_UnknownTagIgnored ==
    (IsSome(last) /\ LastFrame.shape = "push" /\ LastFrame.event \notin EventTags)
    => (LastMsg.ok /\ LastMsg.event = "ignored")

\* C23: a posted event whose nested payloads are given as JSON objects
\* decodes, to the value the same event decodes to with the payloads given
\* as JSON strings.
C23_NestedEitherWay ==
    (/\ IsSome(last)
     /\ LastFrame.shape = "push"
     /\ LastFrame.event = "posted"
     /\ LastFrame.data.nested = "object")
    => /\ LastMsg.ok
       /\ LastMsg = Decode([LastFrame EXCEPT !.data.nested = "string"])

\* C28: a hello event records the broadcast user id as the own account id
\* also when the suppression map of its envelope marks the own account id
\* of the moment: the suppression is looked at after the update.
C28_UpdateBeforeSuppression ==
    (Handled("hello") /\ LastSuppressed)
    => own_id = Some(LastMsg.broadcast.user_id)

(***************************************************************************)
(* The delivery threads.                                                   *)
(***************************************************************************)
\* C24: a pending delivery blocks nothing: while the connection is open
\* and deliveries are pending, the handler can be called for a further
\* frame, the event loop can take the next signal and every timer that is
\* set can fire, as far as the model follows the session.
C24_DeliveryDoesNotBlock ==
    (conn = "open" /\ pending > 0) =>
        /\ ENABLED DeliveryMessage
        /\ queue # <<>> => ENABLED Signal
        /\ (\E t \in timers : t.token = EXPIRE \/ requested < MaxTimers)
              => ENABLED on_timeout

\* two deliveries are pending at once on an open connection
C24_Witness ==
    /\ conn = "open"
    /\ pending = 2
    /\ Handled("posted")
    /\ Len(LastSpawned) = 1

\* C25: a delivery that fails ends its thread: it is not made again, the
\* connection and its timers stay as they are and no field of the handler
\* changes.
C25_FailedDeliveryOnce ==
    [][(/\ delivery' = Some("failed")
        /\ delivery # Some("failed") \/ pending' < pending)
       => /\ pending' = pending - 1
          /\ conn' = conn /\ closeCode' = closeCode
          /\ thread' = thread /\ attempts' = attempts
          /\ WsClient' = WsClient /\ announced' = announced
          /\ queue' = queue /\ timers' = timers /\ sent' = sent]_vars

\* a delivery failed, and the connection is open with its own id
C25_Witness ==
    /\ delivery = Some("failed")
    /\ pending = 0
    /\ conn = "open"
    /\ IsSome(own_id)

(***************************************************************************)
(* The process and its threads.                                            *)
(***************************************************************************)
\* C26: the watchdog of a server never stops: once it polls it polls for
\* ever, also after the connection of the server has terminated
C26_WatchdogNeverStops ==
    [][(watchdog \in Polling) => (watchdog' \in Polling)]_vars

\* C27: no error ends the process: after startup the process runs, and the
\* session of the server is connected or its thread is there to connect
\* again
C27_ProcessSurvives ==
    process # "startup" =>
        /\ process # "exited"
        /\ conn \in {"connecting", "open"} \/ thread = "running"

\* C29: after startup one session thread and one watchdog thread have been
\* spawned for the server, however the check at startup came out
C29_OneSessionOneWatchdog ==
    process # "startup" => (thread # "none" /\ watchdog # "none")

(***************************************************************************)
(* The order of the frames.                                                *)
(***************************************************************************)
\* the frames the handler has been called for, in the order of arrival
HandledFrames == SubSeq(arrived, 1, Len(arrived) - Len(inbox))

\* own_id after react_to_message has been called for frames, one after the
\* other, by a handler that started without an own id
RECURSIVE Replay(_)
Replay(frames) ==
    IF frames = <<>>
    THEN None
    ELSE react_to_message(Replay(SubSeq(frames, 1, Len(frames) - 1)),
                          frames[Len(frames)]).own_id

\* C30: the text frames of a connection are handled in the order of their
\* arrival, one at a time: the frames not handled yet are the newest, the
\* own id is what handling the older ones in order leaves, the last call of
\* the handler was for the newest handled frame, saw the state its
\* predecessors left and handed off the requests of that frame, and no step
\* handles two frames
C30_ArrivalOrder ==
    /\ [](/\ Len(inbox) <= Len(arrived)
          /\ inbox = SubSeq(arrived, Len(arrived) - Len(inbox) + 1,
                            Len(arrived))
          /\ own_id = Replay(HandledFrames)
          /\ HandledFrames = <<>> => last = None
          /\ HandledFrames # <<>> =>
                /\ IsSome(last)
                /\ LastFrame = HandledFrames[Len(HandledFrames)]
                /\ LastOwn = Replay(SubSeq(HandledFrames, 1,
                                           Len(HandledFrames) - 1))
                /\ LastSpawned =
                      react_to_message(LastOwn, LastFrame).spawned)
    /\ [][Len(inbox') >= Len(inbox) - 1]_vars

\* three frames were handled, the own id changed on the way, and the last
\* one handed a request to a delivery thread
C30_Witness ==
    /\ Len(arrived) = 3
    /\ inbox = <<>>
    /\ arrived[1] # arrived[2]
    /\ own_id = Some("U1")
    /\ LastFrame.event = "posted"
    /\ Len(LastSpawned) = 1

(***************************************************************************)
(* Several servers.                                                        *)
(***************************************************************************)
\* C31: the sessions of two servers share nothing: the own id and the
\* timers of the second session change only in steps of its own thread,
\* and no such step changes the own id, the presence or the timers of the
\* first session, whatever happens on either
C31_SessionsApart ==
    [][/\ (peer'.own_id # peer.own_id \/ peer'.timers # peer.timers)
             => PeerNext
       /\ PeerNext =>
             (own_id' = own_id /\ announced' = announced /\ timers' = timers)
      ]_vars

(***************************************************************************)
(* The serialize module.                                                   *)
(***************************************************************************)
\* the value the module was given
Given == codec.stages[1].v

\* the runs of text without whitespace that no longer such run contains
MaximalRuns(text) ==
    {SubSeq(text, i, j) :
        <<i, j>> \in {<<a, b>> \in (1..Len(text)) \X (1..Len(text)) :
            /\ a <= b
            /\ \A k \in a..b : text[k] # SPACE
            /\ a = 1 \/ text[a - 1] = SPACE
            /\ b = Len(text) \/ text[b + 1] = SPACE}}

\* the members of order with a single space between each two
RECURSIVE JoinSpaces(_)
JoinSpaces(order) ==
    IF order = <<>>
    THEN <<>>
    ELSE IF Len(order) = 1
    THEN Head(order)
    ELSE Head(order) \o <<SPACE>> \o JoinSpaces(Tail(order))

\* a set field was decoded, by string_set or as the fields are
Decoded ==
    /\ codec.kind = "string_set_json"
    /\ codec.trail \in {<<"string_set::deserialize">>,
                         <<"hashtags::deserialize">>}

\* C32: a string-set field decodes by splitting on whitespace: a string of
\* tokens without quotes gives the set of its tokens, two tokens give a set
\* of two, and the empty string and null give the empty set
C32_StringSetDecodes ==
    Decoded =>
        /\ Given.json = "null" => Stage = Ok({})
        /\ (Given.json = "string"
               /\ \A i \in 1..Len(Given.text) : Given.text[i] # QUOTE) =>
              /\ Stage = Ok(MaximalRuns(Given.text))
              /\ Given.text = <<>> => Stage.v = {}
              /\ Given.text = <<"#", SPACE, "a">> =>
                    Stage.v = {<<"#">>, <<"a">>}

\* a set of tokens was encoded, by string_set or as the fields are
Encoded ==
    /\ codec.kind = "string_set"
    /\ codec.trail \in {<<"string_set::serialize">>,
                         <<"hashtags::serialize">>}

\* what was encoded was decoded by the decoder that belongs to the encoder
EncodedAndDecoded ==
    /\ codec.kind = "string_set"
    /\ codec.trail \in
          {<<"string_set::serialize", "string_set::deserialize">>,
           <<"hashtags::serialize", "hashtags::deserialize">>}

\* C33: a set of tokens without whitespace encodes to its members joined by
\* single spaces, in some order, and decoding what was encoded gives the
\* set back
C33_StringSetRoundTrip ==
    /\ Encoded =>
          /\ Stage.ok
          /\ \E order \in Orders(Given) :
                Stage.v = JsonString(JoinSpaces(order))
    /\ EncodedAndDecoded => Stage = Ok(Given)

\* C34: an event of a recognized kind that is encoded and decoded again is
\* the event it was, also when its optional fields are absent
C34_EventRoundTrip ==
    (codec.kind = "event"
       /\ codec.trail = <<"Events::serialize", "Events::deserialize">>) =>
        Stage = Ok(Given)

\* C39: every integer of milliseconds, negative ones included, decodes to
\* the instant that many milliseconds from the epoch, and that instant
\* encodes to the integer again
C39_MillisRoundTrip ==
    /\ (codec.kind = "ts_ms" /\ codec.trail = <<"ts::deserialize">>) =>
          Stage = Ok([secs |-> Given.int \div 1000,
                      millis |-> Given.int % 1000])
    /\ (codec.kind = "ts_ms"
           /\ codec.trail = <<"ts::deserialize", "ts::serialize">>) =>
          Stage = Ok(Given)

(***************************************************************************)
(* The dispatcher before hello, and what re-arms the idle-expiry timer.    *)
(***************************************************************************)
\* C35: a posted event with a mentions list that is handled while the own
\* id is absent hands nothing to a delivery and does not fail: the handler
\* returns and the session thread lives on
C35_PostedBeforeHello ==
    (Handled("posted") /\ IsSome(LastMsg.data.mentions) /\ LastOwn = None) =>
        /\ LastSpawned = <<>>
        /\ ~Unwrap(last).panic
        /\ thread # "panicked"

\* the requests for an EXPIRE timer the event loop has not taken yet
ExpireAsked ==
    {i \in 1..Len(queue) : queue[i].sig = "timeout" /\ queue[i].token = EXPIRE}

\* C36: a new idle-expiry timer is asked for only by on_open and by a pong
\* with our payload; a keepalive tick and a text frame that leave the
\* connection open leave the idle-expiry timers that are set, the handle
\* that is stored and the requests for such timers as they are
C36_OnlyPongRearms ==
    [][/\ (Cardinality(ExpireAsked') > Cardinality(ExpireAsked)) =>
             (pongs' = pongs + 1 \/ (conn = "connecting" /\ conn' = "open"))
       /\ (conn' = "open" /\ (last' # last \/ \E t \in PingTimers : PingFired(t)))
             => /\ ExpireTimers' = ExpireTimers
                /\ timeout' = timeout
                /\ ExpireAsked' = ExpireAsked
      ]_vars

\* a pong with our payload was received and the timer it asked for is set,
\* its handle stored, and a text frame has been handled
C36_Witness ==
    /\ conn = "open"
    /\ pongs = 1
    /\ timeout = Some(3)
    /\ IsSome(last)

C38_AlertPerPoll ==
    /\ poll.alerts <= 1
    /\ watchdog = "alerting" => (poll.check # "users" /\ poll.alerts = 0)
    /\ watchdog = "sleeping" =>
          poll.alerts = (IF poll.check = "users" THEN 0 ELSE 1)

\* the watchdog sleeps after a poll whose request failed, and has alerted
C38_Witness ==
    /\ watchdog = "sleeping"
    /\ poll.check \in {"send_failed", "undecodable"}
    /\ poll.alerts = 1

====
